---- MODULE Spec2Model ----
(***************************************************************************)
(* Model of fetch_patient_data.py: the connection manager                  *)
(* RapportDBConnection, the PatientDataFetcher queries and export_to_json. *)
(*                                                                         *)
(* Python values are tagged records: [t |-> "None"], [t |-> "int", ...],   *)
(* [t |-> "str", v |-> <<characters>>], [t |-> "datetime", ...],           *)
(* [t |-> "bytes"].  Text is a sequence of one-character strings so that   *)
(* LIKE matching, TO_DATE parsing and isoformat() are computed and not     *)
(* assumed.  A patient number is modelled by the numeric value of its      *)
(* fixed-width code ("0000000001" is 1); the code passes it through        *)
(* verbatim and the database orders fixed-width codes like numbers.        *)
(***************************************************************************)
EXTENDS Integers, Sequences, FiniteSets, TLC

\* ---------------------------------------------------------------- bounds
\* number of driver connections one run may open
MaxConns == 2
\* largest explicit limit passed to search_patients_by_name
MaxLimit == 5

\* ------------------------------------------------------- program constants
\* default of the limit parameter of search_patients_by_name
DefaultLimit == 100

\* ------------------------------------------------------------ Python values
None == [t |-> "None"]
Num(n) == [t |-> "int", v |-> n]
Str(s) == [t |-> "str", v |-> s]
Bytes == [t |-> "bytes"]
DT(y, mo, d, h, mi, s, us) ==
  [t |-> "datetime", y |-> y, mo |-> mo, d |-> d, h |-> h, mi |-> mi, s |-> s, us |-> us]

DigitChars == <<"0", "1", "2", "3", "4", "5", "6", "7", "8", "9">>
DigitSet == {DigitChars[i] : i \in 1..10}
DigitVal(c) == (CHOOSE i \in 1..10 : DigitChars[i] = c) - 1

RECURSIVE Pad(_, _)
\* n written in decimal on exactly w digits (the %0wd of isoformat)
Pad(w, n) == IF w = 0 THEN <<>> ELSE Pad(w - 1, n \div 10) \o <<DigitChars[(n % 10) + 1]>>

\* datetime.isoformat(): YYYY-MM-DDTHH:MM:SS, followed by .ffffff when the
\* microsecond is not zero
isoformat(dt) ==
  Pad(4, dt.y) \o <<"-">> \o Pad(2, dt.mo) \o <<"-">> \o Pad(2, dt.d) \o <<"T">>
  \o Pad(2, dt.h) \o <<":">> \o Pad(2, dt.mi) \o <<":">> \o Pad(2, dt.s)
  \o (IF dt.us = 0 THEN <<>> ELSE <<".">> \o Pad(6, dt.us))

\* a conversion that leaves every value as the driver gave it
ConvertValueRaw(value) == value

\* the conversion of one fetched value: a datetime becomes its ISO text,
\* anything else is stored as it is
ConvertValue(value) ==
  IF value.t = "datetime" THEN Str(isoformat(value)) ELSE value

List(items) == [t |-> "list", items |-> items]
Dict(d) == [t |-> "dict", d |-> d]

\* the row_dict of one fetched row: column name -> converted value
RowDict(columns, row) ==
  Dict([c \in {columns[i] : i \in 1..Len(columns)} |->
          ConvertValue(row[CHOOSE i \in 1..Len(columns) :
                             /\ columns[i] = c
                             /\ \A j \in 1..Len(columns) : columns[j] = c => j <= i])])

\* the results list: one row_dict per fetched row, in fetch order
ConvertRows(columns, rows) == [k \in 1..Len(rows) |-> RowDict(columns, rows[k])]

\* ------------------------------------------------------------ SQL semantics
RECURSIVE LexLess(_, _)
\* strict lexicographic order on tuples of integers (sort keys)
LexLess(a, b) ==
  IF b = <<>> THEN FALSE
  ELSE IF a = <<>> THEN TRUE
  ELSE IF Head(a) # Head(b) THEN Head(a) < Head(b)
  ELSE LexLess(Tail(a), Tail(b))

RemoveAt(s, m) == [i \in 1..(Len(s) - 1) |-> IF i < m THEN s[i] ELSE s[i + 1]]

RECURSIVE SortByKey(_, _)
\* ORDER BY: rows sorted by their keys, ascending; rows with equal keys keep
\* their storage order
SortByKey(rows, keys) ==
  IF rows = <<>> THEN <<>>
  ELSE LET m == CHOOSE i \in 1..Len(rows) :
                  \A j \in 1..Len(rows) :
                     \/ LexLess(keys[i], keys[j])
                     \/ (~LexLess(keys[j], keys[i]) /\ i <= j)
       IN  <<rows[m]>> \o SortByKey(RemoveAt(rows, m), RemoveAt(keys, m))

\* ascending key of a column value (Oracle sorts NULL last when ascending)
AscKey(v) ==
  IF v.t = "None" THEN <<1>>
  ELSE IF v.t = "int" THEN <<0, v.v>>
  ELSE <<0, v.y, v.mo, v.d, v.h, v.mi, v.s, v.us>>

\* descending key of a column value (NULL first when descending)
DescKey(v) ==
  IF v.t = "None" THEN <<0>>
  ELSE IF v.t = "int" THEN <<1, 0 - v.v>>
  ELSE <<1, 0 - v.y, 0 - v.mo, 0 - v.d, 0 - v.h, 0 - v.mi, 0 - v.s, 0 - v.us>>

RECURSIVE SelectSeqIdx(_, _, _)
\* the rows of a table at the storage positions in keep, in storage order
SelectSeqIdx(table, keep, i) ==
  IF i > Len(table) THEN <<>>
  ELSE (IF i \in keep THEN <<table[i]>> ELSE <<>>) \o SelectSeqIdx(table, keep, i + 1)

RECURSIVE Like(_, _)
\* Oracle LIKE without ESCAPE: % matches any run of characters, _ matches
\* exactly one character, any other character matches itself
Like(s, p) ==
  IF p = <<>> THEN s = <<>>
  ELSE IF Head(p) = "%" THEN Like(s, Tail(p)) \/ (s # <<>> /\ Like(Tail(s), p))
  ELSE IF s = <<>> THEN FALSE
  ELSE IF Head(p) = "_" THEN Like(Tail(s), Tail(p))
  ELSE Head(s) = Head(p) /\ Like(Tail(s), Tail(p))

\* s contains p as a contiguous run of characters
Contains(s, p) ==
  \E i \in 0..(Len(s) - Len(p)) : \A k \in 1..Len(p) : s[i + k] = p[k]

DaysIn(y, mo) ==
  IF mo \in {4, 6, 9, 11} THEN 30
  ELSE IF mo # 2 THEN 31
  ELSE IF (y % 4 = 0 /\ y % 100 # 0) \/ y % 400 = 0 THEN 29 ELSE 28

\* the text is a calendar date written YYYY-MM-DD
WellFormedDate(s) ==
  /\ Len(s) = 10
  /\ s[5] = "-" /\ s[8] = "-"
  /\ \A i \in {1, 2, 3, 4, 6, 7, 9, 10} : s[i] \in DigitSet
  /\ LET y == 1000 * DigitVal(s[1]) + 100 * DigitVal(s[2]) + 10 * DigitVal(s[3]) + DigitVal(s[4])
         mo == 10 * DigitVal(s[6]) + DigitVal(s[7])
         d == 10 * DigitVal(s[9]) + DigitVal(s[10])
     IN  y >= 1 /\ mo \in 1..12 /\ d >= 1 /\ d <= DaysIn(y, mo)

\* TO_DATE(:s, 'YYYY-MM-DD') of a well-formed text: midnight of that day
ToDate(s) ==
  DT(1000 * DigitVal(s[1]) + 100 * DigitVal(s[2]) + 10 * DigitVal(s[3]) + DigitVal(s[4]),
     10 * DigitVal(s[6]) + DigitVal(s[7]),
     10 * DigitVal(s[9]) + DigitVal(s[10]), 0, 0, 0, 0)

\* a <= b on datetimes
DtLeq(a, b) == ~LexLess(AscKey(b), AscKey(a))

\* ------------------------------------------------------------ select lists
\* the columns of each query in select order; the code names the result
\* columns with the aliases in the query text (F001 as <label>, ...), the
\* model keeps the table's column names as the keys of a row_dict
BasicColumns ==
  <<"F001", "F002", "F003", "F004", "F005", "F006", "F007", "F008", "F010",
    "F016", "F017", "F018", "F019", "UPDDT">>
AddressColumns == <<"F001", "F002", "F003", "F004", "F005", "UPDDT">>
InsuranceColumns ==
  <<"F001", "F002", "F003", "F004", "F005", "F006", "F007", "F008", "F009", "UPDDT">>
DiseaseColumns ==
  <<"F001", "F002", "F003", "F004", "F005", "F006", "F007", "F008", "UPDDT">>
SearchColumns == <<"F001", "F002", "F003", "F004", "F005", "F006", "F007">>
DateRangeColumns == <<"F001", "F002", "F003", "F004", "F005", "F006", "F007", "F023">>

\* the tuple the driver returns for one stored row
Project(row, columns) == [i \in 1..Len(columns) |-> row[columns[i]]]
ProjectAll(rows, columns) == [k \in 1..Len(rows) |-> Project(rows[k], columns)]

\* WHERE F001 = :patient_id
MatchId(table, patient_id) ==
  {i \in 1..Len(table) : table[i].F001 = Num(patient_id)}

\* ---------------------------------------------------------------- queries
\* A query is [name, params].  RunQuery gives what the database answers on
\* a healthy connection: [ok |-> TRUE, rows |-> tuples] or
\* [ok |-> FALSE, error |-> the driver's diagnostic].
Query(name, params) == [name |-> name, params |-> params]

BasicInfoRows(d, patient_id) ==
  ProjectAll(SelectSeqIdx(d.TTPT01, MatchId(d.TTPT01, patient_id), 1), BasicColumns)

AddressRows(d, patient_id) ==
  LET hit == SelectSeqIdx(d.TTPT02, MatchId(d.TTPT02, patient_id), 1)
  IN  ProjectAll(SortByKey(hit, [k \in 1..Len(hit) |-> AscKey(hit[k].F002)]), AddressColumns)

InsuranceRows(d, patient_id) ==
  LET hit == SelectSeqIdx(d.TTPT11, MatchId(d.TTPT11, patient_id), 1)
  IN  ProjectAll(SortByKey(hit, [k \in 1..Len(hit) |-> AscKey(hit[k].F002)]), InsuranceColumns)

DiseaseRows(d, patient_id) ==
  LET hit == SelectSeqIdx(d.TTBY01, MatchId(d.TTBY01, patient_id), 1)
  IN  ProjectAll(SortByKey(hit, [k \in 1..Len(hit) |-> DescKey(hit[k].F006)]), DiseaseColumns)

\* WHERE F003 LIKE :name AND ROWNUM <= :limit ORDER BY F001: ROWNUM numbers
\* the rows that pass the LIKE test as they are read, in storage order, and
\* the ORDER BY sorts what is left
SearchRows(d, name, limit) ==
  LET like == {i \in 1..Len(d.TTPT01) :
                 d.TTPT01[i].F003.t = "str" /\ Like(d.TTPT01[i].F003.v, name)}
      hit == SelectSeqIdx(d.TTPT01, like, 1)
      cut == IF limit <= 0 THEN <<>>
             ELSE IF Len(hit) <= limit THEN hit ELSE SubSeq(hit, 1, limit)
  IN  ProjectAll(SortByKey(cut, [k \in 1..Len(cut) |-> AscKey(cut[k].F001)]), SearchColumns)

\* WHERE F023 BETWEEN TO_DATE(:start_date) AND TO_DATE(:end_date)
\* ORDER BY F023 DESC
DateRangeRows(d, start_date, end_date) ==
  LET lo == ToDate(start_date)
      hi == ToDate(end_date)
      in == {i \in 1..Len(d.TTPT01) :
               /\ d.TTPT01[i].F023.t = "datetime"
               /\ DtLeq(lo, d.TTPT01[i].F023)
               /\ DtLeq(d.TTPT01[i].F023, hi)}
      hit == SelectSeqIdx(d.TTPT01, in, 1)
  IN  ProjectAll(SortByKey(hit, [k \in 1..Len(hit) |-> DescKey(hit[k].F023)]), DateRangeColumns)

QueryColumns(q) ==
  CASE q.name = "basic_info" -> BasicColumns
    [] q.name = "address" -> AddressColumns
    [] q.name = "insurance" -> InsuranceColumns
    [] q.name = "diseases" -> DiseaseColumns
    [] q.name = "search" -> SearchColumns
    [] q.name = "date_range" -> DateRangeColumns

RunQuery(d, q) ==
  CASE q.name = "basic_info" -> [ok |-> TRUE, rows |-> BasicInfoRows(d, q.params.patient_id)]
    [] q.name = "address" -> [ok |-> TRUE, rows |-> AddressRows(d, q.params.patient_id)]
    [] q.name = "insurance" -> [ok |-> TRUE, rows |-> InsuranceRows(d, q.params.patient_id)]
    [] q.name = "diseases" -> [ok |-> TRUE, rows |-> DiseaseRows(d, q.params.patient_id)]
    [] q.name = "search" -> [ok |-> TRUE, rows |-> SearchRows(d, q.params.name, q.params.limit)]
    [] q.name = "date_range" ->
         IF WellFormedDate(q.params.start_date) /\ WellFormedDate(q.params.end_date)
         THEN [ok |-> TRUE, rows |-> DateRangeRows(d, q.params.start_date, q.params.end_date)]
         ELSE [ok |-> FALSE, error |-> "DatabaseError: ORA-01861"]
\* ---------------------------------------------------------------- database
\* The stored rows the queries read.  A table is the sequence of its rows in
\* storage order; DATE and TIMESTAMP columns hold datetime values, which is
\* how the driver hands them over.
YAMADA == <<"Y", "A", "M", "A", "D", "A">>
SATO == <<"S", "A", "_", "T", "O">>

Patient(id, kana, birth, reg, upd) ==
  [F001 |-> Num(id), F002 |-> Str(<<"T">>), F003 |-> kana, F004 |-> Str(<<"t">>),
   F005 |-> Str(<<"y">>), F006 |-> Num(1), F007 |-> birth, F008 |-> None,
   F010 |-> None, F016 |-> Num(0), F017 |-> Num(0), F018 |-> None, F019 |-> None,
   F023 |-> reg, UPDDT |-> upd]

Address(id, kind, upd) ==
  [F001 |-> Num(id), F002 |-> Num(kind), F003 |-> Str(<<"1", "0", "0">>),
   F004 |-> Str(<<"a">>), F005 |-> None, UPDDT |-> upd]

Insurance(id, no, from, to, upd) ==
  [F001 |-> Num(id), F002 |-> Num(no), F003 |-> Num(6), F004 |-> Num(1), F005 |-> Num(1),
   F006 |-> Str(<<"k">>), F007 |-> Str(<<"7">>), F008 |-> from, F009 |-> to, UPDDT |-> upd]

Disease(id, no, from, to, upd) ==
  [F001 |-> Num(id), F002 |-> Num(no), F003 |-> Num(1), F004 |-> Num(250),
   F005 |-> Str(<<"d">>), F006 |-> from, F007 |-> to, F008 |-> None, UPDDT |-> upd]

Jan1 == DT(2024, 1, 1, 0, 0, 0, 0)
Feb29 == DT(2024, 2, 29, 9, 30, 0, 0)
Jun15 == DT(2024, 6, 15, 23, 59, 59, 120)
Dec31 == DT(2024, 12, 31, 0, 0, 0, 0)
Dec31Noon == DT(2024, 12, 31, 12, 0, 0, 0)
Born == DT(1970, 7, 4, 0, 0, 0, 0)

ClinicDB ==
  [TTPT01 |-> << Patient(7, Str(YAMADA \o <<"G">>), Born, Jan1, Jun15),
                 Patient(3, Str(<<"O">> \o YAMADA), Born, Feb29, Jun15),
                 Patient(1, Str(YAMADA), Born, Jun15, Jun15),
                 Patient(8, Str(SATO), None, Dec31, Dec31Noon),
                 Patient(5, Str(YAMADA), Born, Dec31Noon, Dec31Noon),
                 Patient(2, None, Born, None, Jan1),
                 Patient(2, Str(YAMADA), Born, Jan1, Jan1),
                 Patient(6, Str(YAMADA), Born, Feb29, Feb29),
                 Patient(4, Str(YAMADA), Born, Jun15, Dec31) >>,
   TTPT02 |-> << Address(1, 2, Jun15), Address(2, 1, Jan1), Address(1, 1, Feb29) >>,
   TTPT11 |-> << Insurance(1, 1, Jan1, None, Feb29) >>,
   TTBY01 |-> << Disease(1, 1, Feb29, Jun15, Jun15),
                 Disease(1, 2, Dec31, None, Dec31Noon),
                 Disease(9, 1, None, None, Jan1),
                 Disease(1, 3, Jan1, Feb29, Feb29) >>]

EmptyDB == [TTPT01 |-> <<>>, TTPT02 |-> <<>>, TTPT11 |-> <<>>, TTBY01 |-> <<>>]

Databases == {ClinicDB, EmptyDB}

\* ------------------------------------------------------------------ inputs
PatientIds == {1, 2, 9}
Patterns == {YAMADA, <<"S", "A">>, <<"_">>, <<"%">>, <<"Z">>}
Limits == {0, 1, MaxLimit, DefaultLimit}
DateTexts ==
  { <<"2", "0", "2", "4", "-", "0", "1", "-", "0", "1">>,
    <<"2", "0", "2", "4", "-", "1", "2", "-", "3", "1">>,
    <<"2", "0", "2", "4", "-", "0", "2", "-", "3", "0">> }
\* ------------------------------------------------------------------- state
VARIABLES
  db,           \* the database content (read only for this program)
  credentials,  \* username/password/dsn given to __init__: "valid" or "invalid"
  connection,   \* self.connection: 0 is None, h > 0 is the driver connection h
  connState,    \* driver side: h -> "free" (not created), "open" or "closed"
  pc,           \* the caller: "outside" a with block, in its "body", or
                \* "unwinding" from the body with an error
  pending,      \* the error that left the body while unwinding, else "none"
  scopeConn,    \* the connection __enter__ opened for the current with block
  openCursors,  \* cursors created on the driver and not closed
  last,         \* the last call: what was called, how it ended, what it did
  file          \* the export target: [exists, content]

vars == <<db, credentials, connection, connState, pc, pending, scopeConn,
          openCursors, last, file>>

Handles == 1..MaxConns

\* what self.connection is for the driver: "none", "open" or "closed"
Status == IF connection = 0 THEN "none" ELSE connState[connection]

\* the outcome of a call: returned value or raised error, the cursors it
\* created and closed, the queries it sent and the driver close() calls it
\* made (each with the state of the connection it was made on)
Return(value, opened, closed, queries) ==
  [outcome |-> "return", value |-> value, error |-> "none",
   opened |-> opened, closed |-> closed, queries |-> queries, closes |-> <<>>]
Raise(error, opened, closed, queries) ==
  [outcome |-> "raise", value |-> None, error |-> error,
   opened |-> opened, closed |-> closed, queries |-> queries, closes |-> <<>>]

\* ------------------------------------------------------ PatientDataFetcher
\* what the driver does during one _execute_query on an open connection
Faults == {"ok", "execute_error", "fetch_error", "convert_error"}

\* a cursor closed only where the try block returns
CursorsClosedOnReturn(way) == IF way = "return" THEN 1 ELSE 0

\* the finally clause: cursor.close() runs on the way out of the try block
\* whatever the way ("return" or "raise")
CursorsClosedOnExit(way) == 1

\* _execute_query: cursor(), execute, description, fetchall, conversion.
\* cursor() is called before the try block: on None it is an AttributeError,
\* on a closed connection the driver refuses; neither creates a cursor.
ExecuteQuery(d, status, q, fault) ==
  IF status = "none" THEN Raise("AttributeError", 0, 0, <<>>)
  ELSE IF status = "closed" THEN Raise("InterfaceError: not connected", 0, 0, <<>>)
  ELSE IF fault = "execute_error"
    THEN Raise("DatabaseError: execute", 1, CursorsClosedOnExit("raise"), <<q>>)
  ELSE IF ~RunQuery(d, q).ok
    THEN Raise(RunQuery(d, q).error, 1, CursorsClosedOnExit("raise"), <<q>>)
  ELSE IF fault = "fetch_error"
    THEN Raise("DatabaseError: fetch", 1, CursorsClosedOnExit("raise"), <<q>>)
  ELSE IF fault = "convert_error"
    THEN Raise("MemoryError", 1, CursorsClosedOnExit("raise"), <<q>>)
  ELSE Return(List(ConvertRows(QueryColumns(q), RunQuery(d, q).rows)),
              1, CursorsClosedOnExit("return"), <<q>>)

\* the list itself instead of its first element or None
FirstOrNoneList(results) == results

\* results[0] if results else None
FirstOrNone(results) ==
  IF Len(results.items) > 0 THEN results.items[1] ELSE None

get_patient_basic_info(d, status, patient_id, fault) ==
  LET r == ExecuteQuery(d, status, Query("basic_info", [patient_id |-> patient_id]), fault)
  IN  IF r.outcome = "raise" THEN r ELSE [r EXCEPT !.value = FirstOrNone(r.value)]

get_patient_address(d, status, patient_id, fault) ==
  ExecuteQuery(d, status, Query("address", [patient_id |-> patient_id]), fault)

get_patient_insurance(d, status, patient_id, fault) ==
  ExecuteQuery(d, status, Query("insurance", [patient_id |-> patient_id]), fault)

get_patient_diseases(d, status, patient_id, fault) ==
  ExecuteQuery(d, status, Query("diseases", [patient_id |-> patient_id]), fault)

\* r after prev in one call: the cursors and queries of both
After(prev, r) ==
  [r EXCEPT !.opened = prev.opened + r.opened,
            !.closed = prev.closed + r.closed,
            !.queries = prev.queries \o r.queries]

\* the dict literal of get_patient_all_data
AllDataDict(basic, address, insurance, diseases) ==
  Dict([basic_info |-> basic, address |-> address,
        insurance |-> insurance, diseases |-> diseases])

\* an aggregate that stops after an absent basic info: the other three
\* fetches are not made and their slots are empty lists
get_patient_all_data_short(d, status, patient_id, faults) ==
  LET r1 == get_patient_basic_info(d, status, patient_id, faults[1])
      r2 == After(r1, get_patient_address(d, status, patient_id, faults[2]))
      r3 == After(r2, get_patient_insurance(d, status, patient_id, faults[3]))
      r4 == After(r3, get_patient_diseases(d, status, patient_id, faults[4]))
  IN  IF r1.outcome = "raise" THEN r1
      ELSE IF r1.value = None
        THEN [r1 EXCEPT !.value = AllDataDict(None, List(<<>>), List(<<>>), List(<<>>))]
      ELSE IF r2.outcome = "raise" THEN r2
      ELSE IF r3.outcome = "raise" THEN r3
      ELSE IF r4.outcome = "raise" THEN r4
      ELSE [r4 EXCEPT !.value = AllDataDict(r1.value, r2.value, r3.value, r4.value)]

\* get_patient_all_data: the four fetches in the order of the dict literal;
\* an error of one leaves the call at once.  faults[k] is what the driver
\* does during the k-th fetch.
get_patient_all_data(d, status, patient_id, faults) ==
  LET r1 == get_patient_basic_info(d, status, patient_id, faults[1])
      r2 == After(r1, get_patient_address(d, status, patient_id, faults[2]))
      r3 == After(r2, get_patient_insurance(d, status, patient_id, faults[3]))
      r4 == After(r3, get_patient_diseases(d, status, patient_id, faults[4]))
  IN  IF r1.outcome = "raise" THEN r1
      ELSE IF r2.outcome = "raise" THEN r2
      ELSE IF r3.outcome = "raise" THEN r3
      ELSE IF r4.outcome = "raise" THEN r4
      ELSE [r4 EXCEPT !.value = AllDataDict(r1.value, r2.value, r3.value, r4.value)]

\* the bound parameter of the search: f'%{name}%'
WrapPattern(name) == <<"%">> \o name \o <<"%">>

search_patients_by_name(d, status, name, limit, fault) ==
  ExecuteQuery(d, status, Query("search", [name |-> WrapPattern(name), limit |-> limit]), fault)

get_patients_by_date_range(d, status, start_date, end_date, fault) ==
  ExecuteQuery(d, status,
               Query("date_range", [start_date |-> start_date, end_date |-> end_date]), fault)
\* ------------------------------------------------------ RapportDBConnection
\* what cx_Oracle.connect answers: "ok" or the driver's diagnostic.  Wrong
\* credentials are always refused; right ones can still meet a dead listener.
ConnectAnswers ==
  IF credentials = "invalid" THEN {"ORA-01017"} ELSE {"ok", "ORA-12541"}

\* the driver connection a successful connect creates
NewHandle == CHOOSE h \in Handles :
               connState[h] = "free" /\ \A g \in Handles : connState[g] = "free" => h <= g

\* connect(): the driver's error is logged and raised again as it is
connect(answer) ==
  IF answer = "ok" THEN Return(None, 0, 0, <<>>) ELSE Raise(answer, 0, 0, <<>>)

\* what the driver does with close() on a connection that is already
\* closed: it refuses ("raise") or accepts the call ("ignore")
DoubleClose == {"raise", "ignore"}

\* the test `if self.connection:` of disconnect
HasConnection(c) == c # 0

\* disconnect(): close() is sent to the driver whenever self.connection is
\* set; status is the state of that connection when the call is made
disconnect(c, status, reaction) ==
  IF ~HasConnection(c) THEN Return(None, 0, 0, <<>>)
  ELSE IF status = "closed" /\ reaction = "raise"
    THEN [Raise("InterfaceError: not connected", 0, 0, <<>>) EXCEPT !.closes = <<status>>]
  ELSE [Return(None, 0, 0, <<>>) EXCEPT !.closes = <<status>>]

\* the driver side of disconnect(): the connection is closed afterwards
CloseOnDriver(c) ==
  IF HasConnection(c) THEN [connState EXCEPT ![c] = "closed"] ELSE connState

\* an __enter__ that goes on into the body whatever connect() did
EnterPcAlways(r) == "body"

\* where the caller is after __enter__: in the body only when connect
\* returned, otherwise the with statement is left with connect's error
EnterPc(r) == IF r.outcome = "return" THEN "body" ELSE "outside"

\* an __exit__ that returns a true value: the body's error stops there
ExitResultSwallow(exc, r) == r

\* how the with statement ends: __exit__ returns None, so an error of the
\* body (exc) goes on to the caller; an error of disconnect() replaces it
ExitResult(exc, r) ==
  IF r.outcome = "raise" THEN r
  ELSE IF exc # "none" THEN [Raise(exc, 0, 0, <<>>) EXCEPT !.closes = r.closes]
  ELSE r

\* ------------------------------------------------------------------ export
P(c) == [t |-> "punct", v |-> c]

RECURSIVE Decimal(_)
Decimal(n) == IF n < 10 THEN <<DigitChars[n + 1]>>
              ELSE Decimal(n \div 10) \o <<DigitChars[(n % 10) + 1]>>

Serializable(v) == v.t \in {"None", "int", "str"}

\* the JSON text of a scalar
JsonText(v) ==
  IF v.t = "None" THEN Str(<<"n", "u", "l", "l">>)
  ELSE IF v.t = "int" THEN Str(Decimal(v.v))
  ELSE Str(<<"\"">> \o v.v \o <<"\"">>)

RECURSIVE ItemChunks(_, _)
\* the chunks json.dump writes for the items i.. of a dict, one after the
\* other, up to and without the first value it cannot serialize
ItemChunks(data, i) ==
  IF i > Len(data) THEN <<P("}")>>
  ELSE (IF i > 1 THEN <<P(",")>> ELSE <<>>) \o <<JsonText(Str(data[i][1])), P(":")>>
       \o (IF Serializable(data[i][2])
           THEN <<JsonText(data[i][2])>> \o ItemChunks(data, i + 1)
           ELSE <<>>)

\* the chunks written for data (a dict as the sequence of its items)
Chunks(data) == IF data = <<>> THEN <<P("{}")>> ELSE <<P("{")>> \o ItemChunks(data, 1)

AllSerializable(data) == \A i \in 1..Len(data) : Serializable(data[i][2])

\* open(output_file, 'w') creates or empties the file; json.dump writes the
\* chunks in order; an error leaves what was written so far
Truncated == [exists |-> TRUE, content |-> <<>>]

\* export_to_json: the result and the file afterwards; every error is logged
\* and raised again
ExportToJson(data, f, fault) ==
  IF fault = [at |-> 0]
    THEN [r |-> Raise("OSError: open", 0, 0, <<>>), file |-> f]
  ELSE LET chunks == Chunks(data)
       IN  IF fault.at <= Len(chunks) /\ fault.at > 0
             THEN [r |-> Raise("OSError: write", 0, 0, <<>>),
                   file |-> [Truncated EXCEPT !.content = SubSeq(chunks, 1, fault.at - 1)]]
           ELSE IF ~AllSerializable(data)
             THEN [r |-> Raise("TypeError", 0, 0, <<>>),
                   file |-> [Truncated EXCEPT !.content = chunks]]
           ELSE [r |-> Return(None, 0, 0, <<>>),
                 file |-> [Truncated EXCEPT !.content = chunks]]

Absent == [exists |-> FALSE, content |-> <<>>]
OldFile == [exists |-> TRUE, content |-> <<P("{"), JsonText(Str(<<"k">>)), P(":"), JsonText(Num(7)), P("}")>>]

ExportData ==
  { <<>>,
    << <<<<"a">>, Num(1)>> >>,
    << <<<<"a">>, Str(<<"x">>)>>, <<<<"b">>, None>> >>,
    << <<<<"a">>, Num(12)>>, <<<<"b">>, Bytes>>, <<<<"c">>, Num(3)>> >>,
    << <<<<"a">>, Jan1>> >> }

\* what can fail during one export of data: [at |-> 0] is open(),
\* [at |-> k] the k-th write, one past the last chunk means nothing fails
ExportFaults(data) == {[at |-> k] : k \in 0..(Len(Chunks(data)) + 1)}
\* ----------------------------------------------------------------- actions
\* the record of a call: its arguments, what the environment (driver,
\* database, file system) did during it, the state of self.connection and
\* the place of the caller when it was made, and its outcome
Called(op, args, env, r) ==
  [op |-> op, args |-> args, env |-> env, before |-> Status, where |-> pc, r |-> r]

Init ==
  /\ db \in Databases
  /\ credentials \in {"valid", "invalid"}
  /\ connection = 0
  /\ connState = [h \in Handles |-> "free"]
  /\ pc = "outside"
  /\ pending = "none"
  /\ scopeConn = 0
  /\ openCursors = 0
  /\ last = [op |-> "__init__", args |-> <<>>, env |-> "none", before |-> "none", where |-> "outside",
             r |-> Return(None, 0, 0, <<>>)]
  /\ file = Absent

\* db.connect() called by hand, outside a with block
Connect ==
  /\ pc = "outside"
  /\ \E answer \in ConnectAnswers :
       /\ answer = "ok" => \E h \in Handles : connState[h] = "free"
       /\ last' = Called("connect", <<>>, answer, connect(answer))
       /\ IF answer = "ok"
            THEN /\ connection' = NewHandle
                 /\ connState' = [connState EXCEPT ![NewHandle] = "open"]
            ELSE UNCHANGED <<connection, connState>>
  /\ UNCHANGED <<db, credentials, pc, pending, scopeConn, openCursors, file>>

\* db.disconnect() called by hand, outside a with block
Disconnect ==
  /\ pc = "outside"
  /\ \E reaction \in DoubleClose :
       last' = Called("disconnect", <<>>, reaction, disconnect(connection, Status, reaction))
  /\ connState' = CloseOnDriver(connection)
  /\ UNCHANGED <<db, credentials, connection, pc, pending, scopeConn, openCursors, file>>

\* with RapportDBConnection(...) as db: __enter__
Enter ==
  /\ pc = "outside"
  /\ \E answer \in ConnectAnswers :
       /\ answer = "ok" => \E h \in Handles : connState[h] = "free"
       /\ last' = Called("__enter__", <<>>, answer, connect(answer))
       /\ pc' = EnterPc(connect(answer))
       /\ IF answer = "ok"
            THEN /\ connection' = NewHandle
                 /\ connState' = [connState EXCEPT ![NewHandle] = "open"]
                 /\ scopeConn' = NewHandle
            ELSE UNCHANGED <<connection, connState, scopeConn>>
  /\ UNCHANGED <<db, credentials, pending, openCursors, file>>

\* the body raises an error of its own
BodyRaise ==
  /\ pc = "body"
  /\ pc' = "unwinding"
  /\ pending' = "ValueError"
  /\ last' = Called("body", <<>>, "none", Raise("ValueError", 0, 0, <<>>))
  /\ UNCHANGED <<db, credentials, connection, connState, scopeConn, openCursors, file>>

\* the with block is left, its body finished or failed: __exit__
Exit ==
  /\ pc \in {"body", "unwinding"}
  /\ \E reaction \in DoubleClose :
       last' = Called("__exit__", [exc |-> pending, conn |-> scopeConn], reaction,
                      ExitResult(pending, disconnect(connection, Status, reaction)))
  /\ connState' = CloseOnDriver(connection)
  /\ pc' = "outside"
  /\ pending' = "none"
  /\ scopeConn' = 0
  /\ UNCHANGED <<db, credentials, connection, openCursors, file>>

\* a fetcher call made by the caller, in a with block or outside of one; in a
\* with block an error of the call leaves the body
Fetch(op, args, env, r) ==
  /\ pc \in {"outside", "body"}
  /\ last' = Called(op, args, env, r)
  /\ openCursors' = openCursors + r.opened - r.closed
  /\ pc' = IF pc = "body" /\ r.outcome = "raise" THEN "unwinding" ELSE pc
  /\ pending' = IF pc = "body" /\ r.outcome = "raise" THEN r.error ELSE pending
  /\ UNCHANGED <<db, credentials, connection, connState, scopeConn, file>>

GetBasicInfo ==
  \E id \in PatientIds, fault \in Faults :
    Fetch("get_patient_basic_info", [patient_id |-> id], fault,
          get_patient_basic_info(db, Status, id, fault))

GetAddress ==
  \E id \in PatientIds, fault \in Faults :
    Fetch("get_patient_address", [patient_id |-> id], fault,
          get_patient_address(db, Status, id, fault))

GetInsurance ==
  \E id \in PatientIds, fault \in Faults :
    Fetch("get_patient_insurance", [patient_id |-> id], fault,
          get_patient_insurance(db, Status, id, fault))

GetDiseases ==
  \E id \in PatientIds, fault \in Faults :
    Fetch("get_patient_diseases", [patient_id |-> id], fault,
          get_patient_diseases(db, Status, id, fault))

\* the driver's behaviour during the four fetches of one get_patient_all_data:
\* all well, or one fetch meets a fault (the later ones are then not reached)
AllDataFaults ==
  {[k \in 1..4 |-> "ok"]}
  \cup {[k \in 1..4 |-> IF k = bad THEN fault ELSE "ok"] :
          bad \in 1..4, fault \in Faults \ {"ok"}}

GetAllData ==
  \E id \in PatientIds, faults \in AllDataFaults :
    Fetch("get_patient_all_data", [patient_id |-> id], faults,
          get_patient_all_data(db, Status, id, faults))

SearchByName ==
  \E name \in Patterns, limit \in Limits, fault \in Faults :
    Fetch("search_patients_by_name", [name |-> name, limit |-> limit], fault,
          search_patients_by_name(db, Status, name, limit, fault))

GetByDateRange ==
  \E start_date \in DateTexts, end_date \in DateTexts, fault \in Faults :
    Fetch("get_patients_by_date_range",
          [start_date |-> start_date, end_date |-> end_date], fault,
          get_patients_by_date_range(db, Status, start_date, end_date, fault))

Next ==
  \/ Connect
  \/ Disconnect
  \/ Enter
  \/ BodyRaise
  \/ Exit
  \/ GetBasicInfo
  \/ GetAddress
  \/ GetInsurance
  \/ GetDiseases
  \/ GetAllData
  \/ SearchByName
  \/ GetByDateRange

Spec == Init /\ [][Next]_vars

\* ---------------------------------------------------- export on its own
InitExport ==
  /\ db = EmptyDB
  /\ credentials = "valid"
  /\ connection = 0
  /\ connState = [h \in Handles |-> "free"]
  /\ pc = "outside"
  /\ pending = "none"
  /\ scopeConn = 0
  /\ openCursors = 0
  /\ last = [op |-> "__init__", args |-> <<>>, env |-> "none", before |-> "none", where |-> "outside",
             r |-> Return(None, 0, 0, <<>>)]
  /\ file \in {Absent, OldFile}

Export ==
  \E data \in ExportData :
    \E fault \in ExportFaults(data) :
      /\ last' = Called("export_to_json", [data |-> data, fileBefore |-> file], fault,
                        ExportToJson(data, file, fault).r)
      /\ file' = ExportToJson(data, file, fault).file
      /\ UNCHANGED <<db, credentials, connection, connState, pc, pending, scopeConn,
                     openCursors>>

NextExport == Export

SpecExport == InitExport /\ [][NextExport]_vars
\* ------------------------------------------------------------------ claims
SingleFetchOps ==
  {"get_patient_basic_info", "get_patient_address", "get_patient_insurance",
   "get_patient_diseases", "search_patients_by_name", "get_patients_by_date_range"}
FetchOps == SingleFetchOps \cup {"get_patient_all_data"}

\* C1: a with block whose __enter__ opened a connection leaves that
\* connection closed when the block is left, after a body that finished and
\* after a body that raised; the error of the body is what the caller gets,
\* and a body that finished makes the with statement finish normally.
C1_ScopeReleases ==
  /\ pc \in {"body", "unwinding"} => scopeConn # 0 /\ connState[scopeConn] = "open"
  /\ last.op = "__exit__" =>
       /\ last.args.conn # 0
       /\ connState[last.args.conn] = "closed"
       /\ last.r.closes = <<"open">>
       /\ last.args.exc # "none" =>
            last.r.outcome = "raise" /\ last.r.error = last.args.exc
       /\ last.args.exc = "none" => last.r.outcome = "return"

\* a with block left by an error of a fetch in its body
C1_Witness ==
  /\ last.op = "__exit__"
  /\ last.args.exc = "DatabaseError: fetch"
  /\ last.r.outcome = "raise"
  /\ connState[last.args.conn] = "closed"

\* C2: disconnect on a manager whose connection is already closed, or was
\* never opened, returns normally and sends no close() to the driver.
C2_DisconnectIdempotent ==
  (last.op = "disconnect" /\ last.before \in {"none", "closed"}) =>
    (last.r.outcome = "return" /\ last.r.closes = <<>>)

\* the four queries of the aggregate for one patient, in call order
FourQueries(id) ==
  << Query("basic_info", [patient_id |-> id]), Query("address", [patient_id |-> id]),
     Query("insurance", [patient_id |-> id]), Query("diseases", [patient_id |-> id]) >>

\* C3: a get_patient_all_data(id) that returns gives the mapping of the four
\* fetches made on their own with the same id, and it has sent exactly the
\* four queries, each once and with that id, whatever the basic info or any
\* list turned out to be.
C3_AllDataIsFourFetches ==
  (last.op = "get_patient_all_data" /\ last.r.outcome = "return") =>
    LET id == last.args.patient_id
    IN  /\ last.r.value.t = "dict"
        /\ DOMAIN last.r.value.d = {"basic_info", "address", "insurance", "diseases"}
        /\ last.r.value.d.basic_info = get_patient_basic_info(db, "open", id, "ok").value
        /\ last.r.value.d.address = get_patient_address(db, "open", id, "ok").value
        /\ last.r.value.d.insurance = get_patient_insurance(db, "open", id, "ok").value
        /\ last.r.value.d.diseases = get_patient_diseases(db, "open", id, "ok").value
        /\ last.r.queries = FourQueries(id)

\* an aggregate with an absent basic info and a diagnosis all the same
C3_Witness ==
  /\ last.op = "get_patient_all_data"
  /\ last.r.outcome = "return"
  /\ last.r.value.d.basic_info = None
  /\ Len(last.r.value.d.diseases.items) = 1

\* the table a per-patient fetch reads
TableOf(op) ==
  CASE op = "get_patient_basic_info" -> db.TTPT01
    [] op = "get_patient_address" -> db.TTPT02
    [] op = "get_patient_insurance" -> db.TTPT11
    [] op = "get_patient_diseases" -> db.TTBY01

\* C4: on an open connection whose driver works, a per-patient fetch for an
\* id without rows returns: None for the basic info, an empty list for
\* addresses, insurance and diseases; with a basic-info row it returns one
\* record, that of the patient asked for.
C4_NoRowsIsNotAnError ==
  (/\ last.op \in {"get_patient_basic_info", "get_patient_address",
                   "get_patient_insurance", "get_patient_diseases"}
   /\ last.before = "open"
   /\ last.env = "ok") =>
    /\ last.r.outcome = "return"
    /\ MatchId(TableOf(last.op), last.args.patient_id) = {} =>
         last.r.value = (IF last.op = "get_patient_basic_info" THEN None ELSE List(<<>>))
    /\ (last.op = "get_patient_basic_info"
        /\ MatchId(db.TTPT01, last.args.patient_id) # {}) =>
         /\ last.r.value.t = "dict"
         /\ last.r.value.d.F001 = Num(last.args.patient_id)

\* a basic info asked for an unknown patient of a database that has patients
C4_Witness ==
  /\ last.op = "get_patient_basic_info"
  /\ last.before = "open"
  /\ last.env = "ok"
  /\ db = ClinicDB
  /\ last.args.patient_id = 9
  /\ last.r.value = None

\* the stored rows whose phonetic name contains the text
StoredMatches(name) ==
  {i \in 1..Len(db.TTPT01) :
     db.TTPT01[i].F003.t = "str" /\ Contains(db.TTPT01[i].F003.v, name)}

\* C5: a search that returns gives at most limit rows, each with the text in
\* its phonetic name, in ascending order of patient number, and exactly
\* limit rows when more stored rows than that contain the text.
C5_SearchBySubstring ==
  (last.op = "search_patients_by_name" /\ last.r.outcome = "return") =>
    LET items == last.r.value.items
    IN  /\ Len(items) <= last.args.limit
        /\ \A k \in 1..Len(items) :
             /\ items[k].d.F003.t = "str"
             /\ Contains(items[k].d.F003.v, last.args.name)
        /\ \A k \in 1..(Len(items) - 1) : items[k].d.F001.v <= items[k + 1].d.F001.v
        /\ Cardinality(StoredMatches(last.args.name)) > last.args.limit =>
             Len(items) = last.args.limit

\* C6: get_patients_by_date_range with a start date after the end date
\* raises; it does not return.
C6_ReversedRangeRaises ==
  (/\ last.op = "get_patients_by_date_range"
   /\ WellFormedDate(last.args.start_date)
   /\ WellFormedDate(last.args.end_date)
   /\ ~DtLeq(ToDate(last.args.start_date), ToDate(last.args.end_date))) =>
    last.r.outcome = "raise"

\* C7: with credentials the database refuses, connect() and __enter__ raise
\* the driver's diagnostic, the body of a with block is never entered, the
\* manager never holds a connection, and no call on it creates a cursor or
\* sends a query; whenever __enter__ raises, the caller is outside the body
\* with the driver's diagnostic as the error.
C7_RefusedBeforeAnyQuery ==
  /\ credentials = "invalid" =>
       /\ pc = "outside"
       /\ connection = 0
       /\ \A h \in Handles : connState[h] = "free"
       /\ last.r.opened = 0
       /\ last.r.queries = <<>>
       /\ openCursors = 0
       /\ last.op \in {"connect", "__enter__"} =>
            last.r.outcome = "raise" /\ last.r.error = "ORA-01017"
  /\ (last.op = "__enter__" /\ last.r.outcome = "raise") =>
       /\ pc = "outside"
       /\ last.r.error = last.env
       /\ last.r.error \in {"ORA-01017", "ORA-12541"}

\* a with statement refused at its __enter__
C7_Witness ==
  /\ credentials = "invalid"
  /\ last.op = "__enter__"
  /\ last.r.outcome = "raise"
  /\ last.r.error = "ORA-01017"

\* text of the shape YYYY-MM-DDTHH:MM:SS or YYYY-MM-DDTHH:MM:SS.ffffff
IsIsoText(s) ==
  /\ Len(s) \in {19, 26}
  /\ s[5] = "-" /\ s[8] = "-" /\ s[11] = "T" /\ s[14] = ":" /\ s[17] = ":"
  /\ \A i \in {1, 2, 3, 4, 6, 7, 9, 10, 12, 13, 15, 16, 18, 19} : s[i] \in DigitSet
  /\ Len(s) = 26 => s[20] = "." /\ \A i \in 21..26 : s[i] \in DigitSet

TwoDigits(s, i) == 10 * DigitVal(s[i]) + DigitVal(s[i + 1])

\* the ISO text s denotes the instant dt
IsoDenotes(s, dt) ==
  /\ 100 * TwoDigits(s, 1) + TwoDigits(s, 3) = dt.y
  /\ TwoDigits(s, 6) = dt.mo
  /\ TwoDigits(s, 9) = dt.d
  /\ TwoDigits(s, 12) = dt.h
  /\ TwoDigits(s, 15) = dt.mi
  /\ TwoDigits(s, 18) = dt.s
  /\ IF Len(s) = 26
       THEN 10000 * TwoDigits(s, 21) + 100 * TwoDigits(s, 23) + TwoDigits(s, 25) = dt.us
       ELSE dt.us = 0

\* out is what the caller may see for the fetched value raw
Faithful(out, raw) ==
  /\ out.t # "datetime"
  /\ IF raw.t = "datetime"
       THEN out.t = "str" /\ IsIsoText(out.v) /\ IsoDenotes(out.v, raw)
       ELSE out = raw

\* the records of a returned value, as a sequence
Items(v) == IF v.t = "list" THEN v.items ELSE IF v.t = "None" THEN <<>> ELSE <<v>>

\* the returned value of a fetch, one part per query it sent
Parts(l) ==
  IF l.op = "get_patient_all_data"
    THEN << l.r.value.d.basic_info, l.r.value.d.address,
            l.r.value.d.insurance, l.r.value.d.diseases >>
    ELSE << l.r.value >>

\* C8: in whatever a fetch returns, no value is a native datetime: a fetched
\* datetime is there as the ISO-8601 text of the same instant, and any other
\* fetched value is there unchanged, under the column it was selected as.
C8_DatesAreIsoText ==
  (last.op \in FetchOps /\ last.r.outcome = "return") =>
    \A p \in 1..Len(Parts(last)) :
      LET items == Items(Parts(last)[p])
          q == last.r.queries[p]
          raw == RunQuery(db, q).rows
          cols == QueryColumns(q)
      IN  /\ Len(items) <= Len(raw)
          /\ \A k \in 1..Len(items) :
               /\ DOMAIN items[k].d = {cols[i] : i \in 1..Len(cols)}
               /\ \A i \in 1..Len(cols) : Faithful(items[k].d[cols[i]], raw[k][i])

\* a returned list with a timestamp that has microseconds
C8_Witness ==
  /\ last.op = "get_patient_diseases"
  /\ last.r.outcome = "return"
  /\ Len(last.r.value.items) = 3
  /\ \E k \in 1..3 : Len(last.r.value.items[k].d.UPDDT.v) = 26

\* C9: an export that raises leaves the target file as it was before the
\* call (absent if it was absent); an export that returns leaves the whole
\* document in it.
C9_NoPartialWrite ==
  last.op = "export_to_json" =>
    IF last.r.outcome = "raise"
      THEN file = last.args.fileBefore
      ELSE file = [exists |-> TRUE, content |-> Chunks(last.args.data)]

\* the error the driver or the conversion produces for a fault met while
\* query q runs: a query the database rejects fails at execute, before any
\* later fault can be met
FaultError(q, fault) ==
  IF fault = "execute_error" THEN "DatabaseError: execute"
  ELSE IF ~RunQuery(db, q).ok THEN RunQuery(db, q).error
  ELSE IF fault = "fetch_error" THEN "DatabaseError: fetch"
  ELSE "MemoryError"

\* C10: every call closes each cursor it created before it returns or
\* raises, so no cursor is ever left open; a query is sent once per cursor and
\* never again after an error; the driver's error is raised as it is; an
\* aggregate aborted by its k-th fetch has sent the first k queries only.
C10_CursorsAlwaysClosed ==
  /\ openCursors = 0
  /\ last.r.opened = last.r.closed
  /\ Len(last.r.queries) = last.r.opened
  /\ last.op \in SingleFetchOps =>
       /\ last.r.opened <= 1
       /\ (last.before = "open" /\ last.env # "ok") =>
            /\ last.r.outcome = "raise"
            /\ last.r.opened = 1
            /\ last.r.error = FaultError(last.r.queries[1], last.env)
  /\ last.op = "get_patient_all_data" =>
       /\ last.r.queries = SubSeq(FourQueries(last.args.patient_id), 1, last.r.opened)
       /\ \A k \in 1..4 :
            (last.before = "open" /\ last.env[k] # "ok") =>
              /\ last.r.outcome = "raise"
              /\ last.r.opened = k
              /\ last.r.error = FaultError(last.r.queries[k], last.env[k])

\* an aggregate aborted by its third fetch
C10_Witness ==
  /\ last.op = "get_patient_all_data"
  /\ last.r.outcome = "raise"
  /\ last.r.opened = 3
  /\ last.r.closed = 3
  /\ openCursors = 0
====
